---- MODULE Spec2Model ----
(***************************************************************************)
(* A model of the fwupd D-Bus client (src/src/lib.rs): the firmware        *)
(* acquisition-and-installation pipeline Client::update_device_with_release*)
(* with Client::install, and the daemon event stream Client::listen_signals*)
(***************************************************************************)
EXTENDS Integers, Sequences, FiniteSets, TLC

\* ------------------------------------------------------------------------
\* Bounds of the model
\* ------------------------------------------------------------------------

\* longest response body served by the remote, in bytes
MaxLen == 2

\* number of bus items one listen_signals sequence receives
MaxItems == 3

\* longest remote list the daemon returns from GetRemotes
MaxRemotes == 2

\* longest path, in segments, of a URI handed to firmware_uri
MaxPath == 2

Byte == {0, 1}

\* Option<T>: None is the empty sequence, Some(x) the one-element sequence
None == "None"
Absent == << >>
Some(x) == <<x>>
Get(o) == o[1]

\* all byte strings of length at most n
Contents(n) == UNION {[1..k -> Byte] : k \in 0..n}

\* ------------------------------------------------------------------------
\* InstallFlags (bitflags, u8)
\* ------------------------------------------------------------------------

OFFLINE == 1
ALLOW_REINSTALL == 2
ALLOW_OLDER == 4
FORCE == 8
NO_HISTORY == 16

AllFlags == 0..31

\* InstallFlags::contains for a single-bit flag
Contains(flags, bit) == (flags \div bit) % 2 = 1

\* flags |= bit
BitOr(flags, bit) == IF Contains(flags, bit) THEN flags ELSE (flags + bit) % 256

\* ------------------------------------------------------------------------
\* State
\* ------------------------------------------------------------------------

VARIABLES
    pc,           \* position of the caller inside update_device_with_release / install
    flags,        \* the `mut flags` argument
    hasCallback,  \* callback is Some(_)
    onlyOffline,  \* device.only_offline()
    checksum,     \* common::find_best_checksum(&release.checksums): an Option of a digest
    kind,         \* remote.kind of the remote found for the release
    filename,     \* the path handed to install
    handle,       \* the open cache file: an Option of [pos |-> cursor]
    disk,         \* the cache file on disk: Absent, or Some(its bytes)
    body,         \* part of the HTTP response body not yet read
    served,       \* the whole body of the HTTP response (Absent before the response)
    copyErr,      \* io::copy returned Err
    digestSeen,   \* digest recomputed by validate_checksum (Absent if not computed)
    events,       \* FlashEvents delivered to the callback, in order
    netRequests,  \* HTTP requests sent in this run
    cacheOpens,   \* opens of the cache file in this run
    written,      \* bytes written to the cache file in this run
    installArgs,  \* arguments of the last call of Client::install
    request,      \* Install request sent to the daemon in this run
    result,       \* what the operation returned
    steps,        \* the fallible steps this run has executed, each with its outcome
    cancellable,  \* the shared AtomicBool of listen_signals
    lpc,          \* position of the consumer inside Iterator::next
    twDone,       \* TakeWhile's internal flag
    log,          \* bus items received by this sequence, each with the flag value observed
                  \* for it and the number of loads of the flag made for it
    yielded,      \* Signals yielded by this sequence
    ret,          \* what the last call of next() returned
    clearedAt,    \* number of Signals yielded when the flag was last cleared
    relRemote,    \* Client::remote: the remote id looked for (release.remote_id)
    remotes,      \* Client::remote: the reply of GetRemotes, an Option of a remote list
    found,        \* Client::remote: the Option of the remote returned
    uriRemote,    \* Remote::firmware_uri: the remote (firmware_base_uri, uri)
    uriIn,        \* Remote::firmware_uri: the URI given
    uriOut,       \* Remote::firmware_uri: the Option of the URI returned
    twin          \* paired runs: Absent, or Some of the run compared with this one

updVars == <<pc, flags, hasCallback, onlyOffline, checksum, kind, filename, handle,
             disk, body, served, copyErr, digestSeen, events, netRequests,
             cacheOpens, written, installArgs, request, result, steps>>

sigVars == <<cancellable, lpc, twDone, log, yielded, ret, clearedAt>>

\* state of the specifications of Client::remote and Remote::firmware_uri
auxVars == <<relRemote, remotes, found, uriRemote, uriIn, uriOut, twin>>

vars == <<updVars, sigVars, auxVars>>

\* ------------------------------------------------------------------------
\* Helpers of the update pipeline
\* ------------------------------------------------------------------------

RemoteKinds == {"Unknown", "Download", "Local", "Directory"}

\* the digest validate_checksum recomputes over a byte string: a small
\* polynomial hash, so that distinct contents may collide
RECURSIVE Digest(_)
Digest(c) ==
    IF c = <<>> THEN 1
    ELSE (2 * Digest(SubSeq(c, 1, Len(c) - 1)) + c[Len(c)] + 1) % 5

Digests == {Digest(c) : c \in Contents(MaxLen)}

\* a FlashEvent; n is the payload of DownloadUpdate, 0 for the other kinds
\* (the release.size carried by DownloadInitiate is not modelled)
Ev(k, n) == [kind |-> k, n |-> n]

\* `if let Some(ref mut cb) = callback { cb(ev) }`
Emit(ev) == IF hasCallback THEN Append(events, ev) ELSE events

\* File::write at cursor pos (0-based) of a file opened without truncate:
\* bytes under the chunk are overwritten, bytes beyond it are kept
WriteAt(content, pos, chunk) ==
    SubSeq(content, 1, pos) \o chunk \o
    SubSeq(content, pos + Len(chunk) + 1, Len(content))

\* one `if flags.contains(bit) { opts.push((name, true)) }` of install
Opt(fl, bit, name) == IF Contains(fl, bit) THEN << <<name, TRUE>> >> ELSE << >>

\* InstallOptions with the names of ALLOW_OLDER and ALLOW_REINSTALL exchanged
InstallOptionsSwapped(reason, fname, fl) ==
    << <<"reason", reason>>, <<"filename", fname>> >>
    \o Opt(fl, OFFLINE, "offline")
    \o Opt(fl, ALLOW_OLDER, "allow-reinstall")
    \o Opt(fl, ALLOW_REINSTALL, "allow-older")
    \o Opt(fl, FORCE, "force")
    \o Opt(fl, NO_HISTORY, "no-history")

\* the option list install builds with cascade!
InstallOptions(reason, fname, fl) ==
    << <<"reason", reason>>, <<"filename", fname>> >>
    \o Opt(fl, OFFLINE, "offline")
    \o Opt(fl, ALLOW_OLDER, "allow-older")
    \o Opt(fl, ALLOW_REINSTALL, "allow-reinstall")
    \o Opt(fl, FORCE, "force")
    \o Opt(fl, NO_HISTORY, "no-history")

\* `return Err(e)` / `?` out of update_device_with_release
Fail(e) == /\ pc' = "done" /\ result' = e

\* the run has executed the fallible step op, which succeeded (ok) or failed
Did(op, ok) == steps' = Append(steps, [op |-> op, ok |-> ok])

\* two fallible steps executed within one action
DidBoth(op1, ok1, op2, ok2) ==
    steps' = steps \o <<[op |-> op1, ok |-> ok1], [op |-> op2, ok |-> ok2]>>

\* ------------------------------------------------------------------------
\* Client::update_device_with_release
\* ------------------------------------------------------------------------

\* the caller invokes update_device_with_release(client, device, release, flags, callback)
Call ==
    /\ pc = "idle"
    /\ pc' = "remote"
    /\ flags' \in AllFlags
    /\ hasCallback' \in BOOLEAN
    /\ onlyOffline' \in BOOLEAN
    /\ checksum' \in {Absent} \cup {Some(d) : d \in Digests}
    /\ UNCHANGED <<kind, filename, handle, disk, body, served, copyErr, digestSeen,
                   events, netRequests, cacheOpens, written, installArgs, request,
                   result, steps, sigVars, auxVars>>

\* the operation has returned; its locals (and the file handle) are dropped, the
\* cache file stays on disk for the next call
Return ==
    /\ pc = "done"
    /\ pc' = "idle"
    /\ flags' = 0
    /\ hasCallback' = FALSE
    /\ onlyOffline' = FALSE
    /\ checksum' = Absent
    /\ kind' = None
    /\ filename' = None
    /\ handle' = Absent
    /\ body' = <<>>
    /\ served' = Absent
    /\ copyErr' = FALSE
    /\ digestSeen' = Absent
    /\ events' = <<>>
    /\ netRequests' = 0
    /\ cacheOpens' = 0
    /\ written' = 0
    /\ installArgs' = Absent
    /\ request' = Absent
    /\ result' = None
    /\ steps' = <<>>
    /\ UNCHANGED <<disk, sigVars, auxVars>>

\* let remote = self.remote(release)?;
LookupRemote ==
    /\ pc = "remote"
    /\ \/ \E k \in RemoteKinds : /\ kind' = k
                                 /\ pc' = "filename"
                                 /\ Did("remote", TRUE)
                                 /\ UNCHANGED result
       \/ \E e \in {"RemoteNotFound", "Call", "ArgumentMismatch"} :
             /\ Fail(e)
             /\ Did("remote", FALSE)
             /\ UNCHANGED kind
    /\ UNCHANGED <<flags, hasCallback, onlyOffline, checksum, filename, handle, disk,
                   body, served, copyErr, digestSeen, events, netRequests, cacheOpens,
                   written, installArgs, request, sigVars, auxVars>>

\* ResolveFilename without the Directory arm: a Directory remote is fetched
ResolveFilenameNoDirectory ==
    /\ pc = "filename"
    /\ \/ /\ kind = "Local"
          /\ \E parentOk \in BOOLEAN :
                IF parentOk
                THEN /\ filename' = "filename_cache.parent/release.uri"
                     /\ pc' = "local_flash"
                     /\ Did("filename", TRUE)
                     /\ UNCHANGED result
                ELSE /\ Fail("panic")
                     /\ Did("filename", FALSE)
                     /\ UNCHANGED filename
       \/ /\ kind # "Local"
          /\ pc' = "initiate"
          /\ Did("filename", TRUE)
          /\ UNCHANGED <<filename, result>>
    /\ UNCHANGED <<flags, hasCallback, onlyOffline, checksum, kind, handle, disk,
                   body, served, copyErr, digestSeen, events, netRequests, cacheOpens,
                   written, installArgs, request, sigVars, auxVars>>

\* let filename = match remote.kind { Local => .., Directory => .., _ => None };
\* parentOk: remote.filename_cache has a parent; uriLen: release.uri.len()
ResolveFilename ==
    /\ pc = "filename"
    /\ \/ /\ kind = "Local"
          /\ \E parentOk \in BOOLEAN :
                IF parentOk
                THEN /\ filename' = "filename_cache.parent/release.uri"
                     /\ pc' = "local_flash"
                     /\ Did("filename", TRUE)
                     /\ UNCHANGED result
                ELSE /\ Fail("panic")
                     /\ Did("filename", FALSE)
                     /\ UNCHANGED filename
       \/ /\ kind = "Directory"
          /\ \E uriLen \in {6, 7} :
                IF uriLen >= 7
                THEN /\ filename' = "release.uri[7..]"
                     /\ pc' = "local_flash"
                     /\ Did("filename", TRUE)
                     /\ UNCHANGED result
                ELSE /\ Fail("panic")
                     /\ Did("filename", FALSE)
                     /\ UNCHANGED filename
       \/ /\ kind \notin {"Local", "Directory"}
          /\ pc' = "initiate"
          /\ Did("filename", TRUE)
          /\ UNCHANGED <<filename, result>>
    /\ UNCHANGED <<flags, hasCallback, onlyOffline, checksum, kind, handle, disk,
                   body, served, copyErr, digestSeen, events, netRequests, cacheOpens,
                   written, installArgs, request, sigVars, auxVars>>

\* if let Some(filename) = filename { cb(FlashInProgress); self.install(..) }
LocalFlash ==
    /\ pc = "local_flash"
    /\ events' = Emit(Ev("FlashInProgress", 0))
    /\ pc' = "install"
    /\ UNCHANGED <<flags, hasCallback, onlyOffline, checksum, kind, filename, handle,
                   disk, body, served, copyErr, digestSeen, netRequests, cacheOpens,
                   written, installArgs, request, result, steps, sigVars, auxVars>>

\* cb(FlashEvent::DownloadInitiate(release.size)); cache path from the URI
DownloadInitiate ==
    /\ pc = "initiate"
    /\ events' = Emit(Ev("DownloadInitiate", 0))
    /\ filename' = "cache_path_from_uri"
    /\ pc' = "open"
    /\ UNCHANGED <<flags, hasCallback, onlyOffline, checksum, kind, handle, disk,
                   body, served, copyErr, digestSeen, netRequests, cacheOpens,
                   written, installArgs, request, result, steps, sigVars, auxVars>>

\* OpenOptions::new().read(true).write(true).create(true).open(&file_path)
OpenCache ==
    /\ pc = "open"
    /\ \/ /\ handle' = Some([pos |-> 0])
          /\ disk' = IF disk = Absent THEN Some(<<>>) ELSE disk
          /\ cacheOpens' = cacheOpens + 1
          /\ pc' = "get"
          /\ Did("open", TRUE)
          /\ UNCHANGED result
       \/ /\ Fail("FirmwareCreate")
          /\ Did("open", FALSE)
          /\ UNCHANGED <<handle, disk, cacheOpens>>
    /\ UNCHANGED <<flags, hasCallback, onlyOffline, checksum, kind, filename,
                   body, served, copyErr, digestSeen, events, netRequests,
                   written, installArgs, request, sigVars, auxVars>>

\* req_builder.send()?.error_for_status()?
HttpGet ==
    /\ pc = "get"
    /\ netRequests' = netRequests + 1
    /\ \/ \E b \in Contents(MaxLen) :
             /\ body' = b
             /\ served' = Some(b)
             /\ pc' = "copy"
             /\ Did("get", TRUE)
             /\ UNCHANGED result
       \/ /\ Fail("FirmwareGet")
          /\ Did("get", FALSE)
          /\ UNCHANGED <<body, served>>
    /\ UNCHANGED <<flags, hasCallback, onlyOffline, checksum, kind, filename, handle,
                   disk, copyErr, digestSeen, events, cacheOpens,
                   written, installArgs, request, sigVars, auxVars>>

\* CopyChunk with a closure that reports the running total of bytes written
CopyChunkCumulative ==
    /\ pc = "copy"
    /\ body # <<>>
    /\ \E n \in 1..Len(body) :
          /\ disk' = Some(WriteAt(Get(disk), Get(handle).pos, SubSeq(body, 1, n)))
          /\ handle' = Some([pos |-> Get(handle).pos + n])
          /\ body' = SubSeq(body, n + 1, Len(body))
          /\ written' = written + n
          /\ events' = Emit(Ev("DownloadUpdate", written + n))
    /\ UNCHANGED <<pc, flags, hasCallback, onlyOffline, checksum, kind, filename,
                   served, copyErr, digestSeen, netRequests, cacheOpens,
                   installArgs, request, result, steps, sigVars, auxVars>>

\* one write of io::copy: n bytes of the body go to the file at its cursor,
\* and the ProgressWriter closure reports the bytes of this write
CopyChunk ==
    /\ pc = "copy"
    /\ body # <<>>
    /\ \E n \in 1..Len(body) :
          /\ disk' = Some(WriteAt(Get(disk), Get(handle).pos, SubSeq(body, 1, n)))
          /\ handle' = Some([pos |-> Get(handle).pos + n])
          /\ body' = SubSeq(body, n + 1, Len(body))
          /\ written' = written + n
          /\ events' = Emit(Ev("DownloadUpdate", n))
    /\ UNCHANGED <<pc, flags, hasCallback, onlyOffline, checksum, kind, filename,
                   served, copyErr, digestSeen, netRequests, cacheOpens,
                   installArgs, request, result, steps, sigVars, auxVars>>

\* io::copy returns: Ok at the end of the body, Err on a read or write error
CopyEnd ==
    /\ pc = "copy"
    /\ \/ /\ body = <<>>
          /\ copyErr' = FALSE
       \/ copyErr' = TRUE
    /\ pc' = "complete"
    /\ Did("copy", ~copyErr')
    /\ UNCHANGED <<flags, hasCallback, onlyOffline, checksum, kind, filename, handle,
                   disk, body, served, digestSeen, events, netRequests, cacheOpens,
                   written, installArgs, request, result, sigVars, auxVars>>

\* DownloadComplete with the `?` before the callback: no event when the copy failed
DownloadCompleteAfterCheck ==
    /\ pc = "complete"
    /\ IF copyErr THEN /\ Fail("FirmwareCopy")
                       /\ UNCHANGED events
                  ELSE /\ events' = Emit(Ev("DownloadComplete", 0))
                       /\ pc' = "seek1"
                       /\ UNCHANGED result
    /\ UNCHANGED <<flags, hasCallback, onlyOffline, checksum, kind, filename, handle,
                   disk, body, served, copyErr, digestSeen, netRequests, cacheOpens,
                   written, installArgs, request, steps, sigVars, auxVars>>

\* callback(FlashEvent::DownloadComplete); result.map_err(Error::FirmwareCopy)?
DownloadComplete ==
    /\ pc = "complete"
    /\ events' = Emit(Ev("DownloadComplete", 0))
    /\ IF copyErr THEN Fail("FirmwareCopy")
                  ELSE pc' = "seek1" /\ UNCHANGED result
    /\ UNCHANGED <<flags, hasCallback, onlyOffline, checksum, kind, filename, handle,
                   disk, body, served, copyErr, digestSeen, netRequests, cacheOpens,
                   written, installArgs, request, steps, sigVars, auxVars>>

\* file.seek(SeekFrom::Start(0)).map_err(Error::FirmwareSeek)?  (first)
SeekFirst ==
    /\ pc = "seek1"
    /\ \/ /\ handle' = Some([pos |-> 0])
          /\ pc' = "verifying"
          /\ Did("seek", TRUE)
          /\ UNCHANGED result
       \/ /\ Fail("FirmwareSeek")
          /\ Did("seek", FALSE)
          /\ UNCHANGED handle
    /\ UNCHANGED <<flags, hasCallback, onlyOffline, checksum, kind, filename,
                   disk, body, served, copyErr, digestSeen, events, netRequests,
                   cacheOpens, written, installArgs, request, sigVars, auxVars>>

\* Verifying delivering FlashInProgress in place of VerifyingChecksum
VerifyingSendsFlash ==
    /\ pc = "verifying"
    /\ events' = Emit(Ev("FlashInProgress", 0))
    /\ pc' = "checksum"
    /\ UNCHANGED <<flags, hasCallback, onlyOffline, checksum, kind, filename, handle,
                   disk, body, served, copyErr, digestSeen, netRequests, cacheOpens,
                   written, installArgs, request, result, steps, sigVars, auxVars>>

\* cb(FlashEvent::VerifyingChecksum)
Verifying ==
    /\ pc = "verifying"
    /\ events' = Emit(Ev("VerifyingChecksum", 0))
    /\ pc' = "checksum"
    /\ UNCHANGED <<flags, hasCallback, onlyOffline, checksum, kind, filename, handle,
                   disk, body, served, copyErr, digestSeen, netRequests, cacheOpens,
                   written, installArgs, request, result, steps, sigVars, auxVars>>

\* Checksum without the `if !checksum_matched` return: a mismatch goes on
ChecksumIgnored ==
    /\ pc = "checksum"
    /\ IF checksum = Absent
       THEN /\ pc' = "seek2"
            /\ UNCHANGED <<handle, digestSeen, result, steps>>
       ELSE \/ /\ handle' = Some([pos |-> Len(Get(disk))])
               /\ digestSeen' =
                      Some(Digest(SubSeq(Get(disk), Get(handle).pos + 1, Len(Get(disk)))))
               /\ DidBoth("read", TRUE, "compare", digestSeen' = checksum)
               /\ pc' = "seek2"
               /\ UNCHANGED result
            \/ /\ Fail("FirmwareRead")
               /\ Did("read", FALSE)
               /\ UNCHANGED <<handle, digestSeen>>
    /\ UNCHANGED <<flags, hasCallback, onlyOffline, checksum, kind, filename,
                   disk, body, served, copyErr, events, netRequests,
                   cacheOpens, written, installArgs, request, sigVars, auxVars>>

\* if let Some((checksum, algorithm)) = find_best_checksum(..) { validate_checksum.. }
Checksum ==
    /\ pc = "checksum"
    /\ IF checksum = Absent
       THEN /\ pc' = "seek2"
            /\ UNCHANGED <<handle, digestSeen, result, steps>>
       ELSE \/ /\ handle' = Some([pos |-> Len(Get(disk))])
               /\ digestSeen' =
                      Some(Digest(SubSeq(Get(disk), Get(handle).pos + 1, Len(Get(disk)))))
               /\ DidBoth("read", TRUE, "compare", digestSeen' = checksum)
               /\ IF digestSeen' = checksum
                  THEN pc' = "seek2" /\ UNCHANGED result
                  ELSE Fail("FirmwareChecksumMismatch")
            \/ /\ Fail("FirmwareRead")
               /\ Did("read", FALSE)
               /\ UNCHANGED <<handle, digestSeen>>
    /\ UNCHANGED <<flags, hasCallback, onlyOffline, checksum, kind, filename,
                   disk, body, served, copyErr, events, netRequests,
                   cacheOpens, written, installArgs, request, sigVars, auxVars>>

\* SeekSecond with the result of the seek dropped: a failed seek goes on
SeekSecondUnchecked ==
    /\ pc = "seek2"
    /\ \/ /\ handle' = Some([pos |-> 0])
          /\ Did("seek", TRUE)
       \/ /\ Did("seek", FALSE)
          /\ UNCHANGED handle
    /\ pc' = "offline"
    /\ UNCHANGED <<flags, hasCallback, onlyOffline, checksum, kind, filename,
                   disk, body, served, copyErr, digestSeen, events, netRequests,
                   cacheOpens, written, installArgs, request, result,
                   sigVars, auxVars>>

\* SeekSecond seeking to the current position in place of the start
SeekSecondNoRewind ==
    /\ pc = "seek2"
    /\ \/ /\ pc' = "offline"
          /\ Did("seek", TRUE)
          /\ UNCHANGED result
       \/ /\ Fail("FirmwareSeek")
          /\ Did("seek", FALSE)
    /\ UNCHANGED <<flags, hasCallback, onlyOffline, checksum, kind, filename, handle,
                   disk, body, served, copyErr, digestSeen, events, netRequests,
                   cacheOpens, written, installArgs, request, sigVars, auxVars>>

\* file.seek(SeekFrom::Start(0)).map_err(Error::FirmwareSeek)?  (second)
SeekSecond ==
    /\ pc = "seek2"
    /\ \/ /\ handle' = Some([pos |-> 0])
          /\ pc' = "offline"
          /\ Did("seek", TRUE)
          /\ UNCHANGED result
       \/ /\ Fail("FirmwareSeek")
          /\ Did("seek", FALSE)
          /\ UNCHANGED handle
    /\ UNCHANGED <<flags, hasCallback, onlyOffline, checksum, kind, filename,
                   disk, body, served, copyErr, digestSeen, events, netRequests,
                   cacheOpens, written, installArgs, request, sigVars, auxVars>>

\* ForceOffline inside the `if let Some(cb) = callback` block that follows it
ForceOfflineWithCallback ==
    /\ pc = "offline"
    /\ flags' = IF onlyOffline /\ hasCallback THEN BitOr(flags, OFFLINE) ELSE flags
    /\ pc' = "flash"
    /\ UNCHANGED <<hasCallback, onlyOffline, checksum, kind, filename, handle,
                   disk, body, served, copyErr, digestSeen, events, netRequests,
                   cacheOpens, written, installArgs, request, result, steps, sigVars, auxVars>>

\* if device.only_offline() { flags |= InstallFlags::OFFLINE; }
ForceOffline ==
    /\ pc = "offline"
    /\ flags' = IF onlyOffline THEN BitOr(flags, OFFLINE) ELSE flags
    /\ pc' = "flash"
    /\ UNCHANGED <<hasCallback, onlyOffline, checksum, kind, filename, handle,
                   disk, body, served, copyErr, digestSeen, events, netRequests,
                   cacheOpens, written, installArgs, request, result, steps, sigVars, auxVars>>

\* cb(FlashEvent::FlashInProgress) before self.install(.., Some(file), flags)
FlashInProgress ==
    /\ pc = "flash"
    /\ events' = Emit(Ev("FlashInProgress", 0))
    /\ pc' = "install"
    /\ UNCHANGED <<flags, hasCallback, onlyOffline, checksum, kind, filename, handle,
                   disk, body, served, copyErr, digestSeen, netRequests, cacheOpens,
                   written, installArgs, request, result, steps, sigVars, auxVars>>

\* Client::install(id, "(user)", filename, handle, flags), then Ok(())
Install ==
    /\ pc = "install"
    /\ installArgs' = Some([filename |-> filename, handle |-> handle, flags |-> flags])
    /\ \/ \* the descriptor is there (given, or opened read-only) and the call is sent
          /\ request' = Some([id |-> "device",
                              fd |-> [path |-> filename,
                                      pos |-> IF handle = Absent THEN 0
                                              ELSE Get(handle).pos],
                              options |-> InstallOptions("(user)", filename, flags)])
          /\ \E callOk \in BOOLEAN :
                /\ result' = IF callOk THEN "Ok" ELSE "Call"
                /\ IF handle = Absent
                   THEN DidBoth("install_open", TRUE, "install", callOk)
                   ELSE Did("install", callOk)
       \/ \* OpenOptions::new().read(true).open(filename) fails
          /\ handle = Absent
          /\ result' = "FirmwareOpen"
          /\ Did("install_open", FALSE)
          /\ UNCHANGED request
    /\ pc' = "done"
    /\ UNCHANGED <<flags, hasCallback, onlyOffline, checksum, kind, filename, handle,
                   disk, body, served, copyErr, digestSeen, events, netRequests,
                   cacheOpens, written, sigVars, auxVars>>

NextUpdate ==
    \/ Call
    \/ Return
    \/ LookupRemote
    \/ ResolveFilename
    \/ LocalFlash
    \/ DownloadInitiate
    \/ OpenCache
    \/ HttpGet
    \/ CopyChunk
    \/ CopyEnd
    \/ DownloadComplete
    \/ SeekFirst
    \/ Verifying
    \/ Checksum
    \/ SeekSecond
    \/ ForceOffline
    \/ FlashInProgress
    \/ Install

InitUpdate ==
    /\ pc = "idle"
    /\ flags = 0
    /\ hasCallback = FALSE
    /\ onlyOffline = FALSE
    /\ checksum = Absent
    /\ kind = None
    /\ filename = None
    /\ handle = Absent
    /\ disk = Absent
    /\ body = <<>>
    /\ served = Absent
    /\ copyErr = FALSE
    /\ digestSeen = Absent
    /\ events = <<>>
    /\ netRequests = 0
    /\ cacheOpens = 0
    /\ written = 0
    /\ installArgs = Absent
    /\ request = Absent
    /\ result = None
    /\ steps = <<>>

\* ------------------------------------------------------------------------
\* Client::listen_signals
\* ------------------------------------------------------------------------

Recognized == {"Changed", "DeviceAdded", "DeviceChanged", "DeviceRemoved",
               "PropertiesChanged"}

\* what self.iter(TIMEOUT) can deliver: a ConnectionItem of some class; a
\* signal has a member name and a payload that decodes (ok) or does not
BusItems ==
    {[class |-> c, member |-> "", ok |-> TRUE] :
        c \in {"Nothing", "MethodCall", "MethodReturn"}}
    \cup
    {[class |-> "Signal", member |-> m, ok |-> o] :
        m \in Recognized \cup {"JobStarted"}, o \in BOOLEAN}

\* fn filter_signal(ci: ConnectionItem) -> Option<Message>
filter_signal(ci) == IF ci.class = "Signal" THEN Some(ci) ELSE Absent

\* fn read_signal / signal.read3: decode the payload against the expected shape
read_signal(signal) == IF signal.ok THEN "Ok" ELSE "ArgumentMismatch"

\* DecodeSignal with a catch-all arm that yields Changed for an unknown member
DecodeSignalCatchAll(signal) ==
    IF signal.member \in {"DeviceAdded", "DeviceChanged", "DeviceRemoved",
                          "PropertiesChanged"}
    THEN IF read_signal(signal) = "Ok" THEN Some(signal.member) ELSE Absent
    ELSE Some("Changed")

\* the closure of the second filter_map: the Signal variant to yield, if any
DecodeSignal(signal) ==
    IF signal.member = "Changed" THEN Some("Changed")
    ELSE IF signal.member \in {"DeviceAdded", "DeviceChanged", "DeviceRemoved",
                               "PropertiesChanged"}
         THEN IF read_signal(signal) = "Ok" THEN Some(signal.member) ELSE Absent
         ELSE Absent

\* the item the consumer is working on
Current == log[Len(log)].item

\* client.listen_signals(cancellable): a fresh sequence (an earlier one is dropped)
ListenSignals ==
    /\ lpc \in {"none", "idle"}
    /\ lpc' = "idle"
    /\ twDone' = FALSE
    /\ log' = <<>>
    /\ yielded' = <<>>
    /\ ret' = "pending"
    /\ clearedAt' = 0
    /\ UNCHANGED <<cancellable, updVars, auxVars>>

\* the consumer calls next() on the sequence
NextCall ==
    /\ lpc = "idle"
    /\ lpc' = "pull"
    /\ ret' = "pending"
    /\ UNCHANGED <<cancellable, twDone, log, yielded, clearedAt, updVars, auxVars>>

\* Pull of an adapter that is not fused: it asks the bus again after its end
PullUnfused ==
    /\ lpc = "pull"
    /\ Len(log) < MaxItems
    /\ \E ci \in BusItems :
          log' = Append(log, [item |-> ci, flag |-> "unchecked", loads |-> 0])
    /\ lpc' = "check"
    /\ UNCHANGED <<cancellable, twDone, yielded, ret, clearedAt, updVars, auxVars>>

\* Pull of a variant that looks at the flag before it blocks on the bus
PullChecksFirst ==
    /\ lpc = "pull"
    /\ IF twDone \/ ~cancellable
       THEN /\ ret' = "None"
            /\ lpc' = "idle"
            /\ twDone' = TRUE
            /\ UNCHANGED log
       ELSE /\ Len(log) < MaxItems
            /\ \E ci \in BusItems :
                  log' = Append(log, [item |-> ci, flag |-> "unchecked", loads |-> 0])
            /\ lpc' = "check"
            /\ UNCHANGED <<ret, twDone>>
    /\ UNCHANGED <<cancellable, yielded, clearedAt, updVars, auxVars>>

\* TakeWhile::next: None for ever once its flag is set, else the next bus item
\* (the consumer blocks in self.iter(TIMEOUT) until one is there)
Pull ==
    /\ lpc = "pull"
    /\ IF twDone
       THEN /\ ret' = "None"
            /\ lpc' = "idle"
            /\ UNCHANGED log
       ELSE /\ Len(log) < MaxItems
            /\ \E ci \in BusItems :
                  log' = Append(log, [item |-> ci, flag |-> "unchecked", loads |-> 0])
            /\ lpc' = "check"
            /\ UNCHANGED ret
    /\ UNCHANGED <<cancellable, twDone, yielded, clearedAt, updVars, auxVars>>

\* CheckFlag of a variant whose predicate does not consult the shared flag
CheckFlagStale ==
    /\ lpc = "check"
    /\ log' = [log EXCEPT ![Len(log)].flag = "true", ![Len(log)].loads = @ + 1]
    /\ lpc' = "filter"
    /\ UNCHANGED <<cancellable, twDone, ret, yielded, clearedAt, updVars, auxVars>>

\* CheckFlag with filter in place of take_while: an item seen with the flag
\* false is skipped and the sequence goes on
CheckFlagFilter ==
    /\ lpc = "check"
    /\ log' = [log EXCEPT ![Len(log)].flag = IF cancellable THEN "true" ELSE "false",
                          ![Len(log)].loads = @ + 1]
    /\ lpc' = IF cancellable THEN "filter" ELSE "pull"
    /\ UNCHANGED <<cancellable, twDone, ret, yielded, clearedAt, updVars, auxVars>>

\* take_while(move |_| cancellable.load(Ordering::SeqCst))
CheckFlag ==
    /\ lpc = "check"
    /\ log' = [log EXCEPT ![Len(log)].flag = IF cancellable THEN "true" ELSE "false",
                          ![Len(log)].loads = @ + 1]
    /\ IF cancellable
       THEN /\ lpc' = "filter"
            /\ UNCHANGED <<twDone, ret>>
       ELSE /\ twDone' = TRUE
            /\ ret' = "None"
            /\ lpc' = "idle"
    /\ UNCHANGED <<cancellable, yielded, clearedAt, updVars, auxVars>>

\* .filter_map(filter_signal)
FilterSignal ==
    /\ lpc = "filter"
    /\ lpc' = IF filter_signal(Current) = Absent THEN "pull" ELSE "decode"
    /\ UNCHANGED <<cancellable, twDone, log, yielded, ret, clearedAt, updVars, auxVars>>

\* Decode of a variant that hands out the newest Signal before the older ones
DecodePrepends ==
    /\ lpc = "decode"
    /\ IF DecodeSignal(Current) = Absent
       THEN /\ lpc' = "pull"
            /\ UNCHANGED <<yielded, ret>>
       ELSE /\ yielded' = <<[src |-> Len(log),
                            variant |-> Get(DecodeSignal(Current))]>> \o yielded
            /\ ret' = "Some"
            /\ lpc' = "idle"
    /\ UNCHANGED <<cancellable, twDone, log, clearedAt, updVars, auxVars>>

\* Decode ending the sequence at a decode failure
DecodeStopsOnError ==
    /\ lpc = "decode"
    /\ IF DecodeSignal(Current) = Absent
       THEN /\ twDone' = TRUE
            /\ ret' = "None"
            /\ lpc' = "idle"
            /\ UNCHANGED yielded
       ELSE /\ yielded' = Append(yielded, [src |-> Len(log),
                                           variant |-> Get(DecodeSignal(Current))])
            /\ ret' = "Some"
            /\ lpc' = "idle"
            /\ UNCHANGED twDone
    /\ UNCHANGED <<cancellable, log, clearedAt, updVars, auxVars>>

\* .filter_map(|signal| match member { .. }): yield the Signal or skip the item
Decode ==
    /\ lpc = "decode"
    /\ IF DecodeSignal(Current) = Absent
       THEN /\ lpc' = "pull"
            /\ UNCHANGED <<yielded, ret>>
       ELSE /\ yielded' = Append(yielded, [src |-> Len(log),
                                           variant |-> Get(DecodeSignal(Current))])
            /\ ret' = "Some"
            /\ lpc' = "idle"
    /\ UNCHANGED <<cancellable, twDone, log, clearedAt, updVars, auxVars>>

\* another thread stores into the shared cancellation flag
StoreFlag ==
    /\ lpc # "none"
    /\ cancellable' = ~cancellable
    /\ clearedAt' = IF cancellable THEN Len(yielded) ELSE clearedAt
    /\ UNCHANGED <<lpc, twDone, log, yielded, ret, updVars, auxVars>>

NextSignals ==
    \/ ListenSignals
    \/ NextCall
    \/ Pull
    \/ CheckFlag
    \/ FilterSignal
    \/ Decode
    \/ StoreFlag

\* ------------------------------------------------------------------------
\* Client::remote and Client::remotes, as called at the head of
\* update_device_with_release (LookupRemote is the summary of these steps)
\* ------------------------------------------------------------------------

RemoteIds == {"lvfs", "vendor"}

\* the fields of a Remote that the resolver reads
RemoteRecords == [id : RemoteIds, kind : RemoteKinds]

\* what GetRemotes can return as its array of remotes
RemoteLists == UNION {[1..n -> RemoteRecords] : n \in 0..MaxRemotes}

\* the find of a variant that looks at the first remote only
FindRemoteFirstOnly(list, id) ==
    IF Len(list) >= 1 /\ list[1].id = id THEN Some(list[1]) ELSE Absent

\* .into_iter().find(|remote| &remote.remote_id == id.as_ref())
FindRemote(list, id) ==
    LET hits == {i \in 1..Len(list) : list[i].id = id}
    IN IF hits = {} THEN Absent
       ELSE Some(list[CHOOSE i \in hits : \A j \in hits : i <= j])

\* update_device_with_release is entered for a release of some remote id
CallResolve ==
    /\ pc = "idle"
    /\ relRemote' \in RemoteIds
    /\ pc' = "getremotes"
    /\ UNCHANGED <<flags, hasCallback, onlyOffline, checksum, kind, filename, handle,
                   disk, body, served, copyErr, digestSeen, events, netRequests,
                   cacheOpens, written, installArgs, request, result, steps,
                   remotes, found, uriRemote, uriIn, uriOut, sigVars, twin>>

\* self.remotes()?: get_method("GetRemotes") returns the list, or fails in
\* call_method (Call) or in read1 (ArgumentMismatch)
GetRemotes ==
    /\ pc = "getremotes"
    /\ \/ /\ \E list \in RemoteLists : remotes' = Some(list)
          /\ pc' = "find"
          /\ UNCHANGED <<result, steps>>
       \/ /\ \E e \in {"Call", "ArgumentMismatch"} : Fail(e)
          /\ Did("remote", FALSE)
          /\ UNCHANGED remotes
    /\ UNCHANGED <<flags, hasCallback, onlyOffline, checksum, kind, filename, handle,
                   disk, body, served, copyErr, digestSeen, events, netRequests,
                   cacheOpens, written, installArgs, request,
                   relRemote, found, uriRemote, uriIn, uriOut, sigVars, twin>>

\* .find(..).ok_or(Error::RemoteNotFound)?
FindStep ==
    /\ pc = "find"
    /\ found' = FindRemote(Get(remotes), relRemote)
    /\ IF found' = Absent
       THEN /\ Fail("RemoteNotFound")
            /\ Did("remote", FALSE)
            /\ UNCHANGED kind
       ELSE /\ kind' = Get(found').kind
            /\ pc' = "filename"
            /\ Did("remote", TRUE)
            /\ UNCHANGED result
    /\ UNCHANGED <<flags, hasCallback, onlyOffline, checksum, filename, handle,
                   disk, body, served, copyErr, digestSeen, events, netRequests,
                   cacheOpens, written, installArgs, request,
                   relRemote, remotes, uriRemote, uriIn, uriOut, sigVars, twin>>

\* the resolver is over: a failure has returned, or the run goes on to the
\* local install or to the fetch
ResolveReturn ==
    /\ pc \in {"done", "local_flash", "initiate"}
    /\ pc' = "idle"
    /\ kind' = None
    /\ filename' = None
    /\ result' = None
    /\ steps' = <<>>
    /\ relRemote' = None
    /\ remotes' = Absent
    /\ found' = Absent
    /\ UNCHANGED <<flags, hasCallback, onlyOffline, checksum, handle,
                   disk, body, served, copyErr, digestSeen, events, netRequests,
                   cacheOpens, written, installArgs, request,
                   uriRemote, uriIn, uriOut, sigVars, twin>>

NextRemote ==
    \/ CallResolve
    \/ GetRemotes
    \/ FindStep
    \/ ResolveFilename
    \/ ResolveReturn

\* ------------------------------------------------------------------------
\* Remote::firmware_uri (used at line 223 and by the tests of lib.rs)
\* ------------------------------------------------------------------------

\* a URI is [scheme, host, path, query]; a relative reference has no scheme
\* and no host; the path is its sequence of segments
Uri(sc, h, p, q) == [scheme |-> sc, host |-> h, path |-> p, query |-> q]

IsAbsolute(u) == u.scheme # ""

\* the URIs a release can carry
InputPaths == UNION {[1..n -> {"downloads", "firmware.cab"}] : n \in 1..MaxPath}
InputUris ==
    {Uri(sc, IF sc = "" THEN "" ELSE "bbc.co.uk", p, q) :
        sc \in {"", "http"}, p \in InputPaths, q \in {"", "v=1"}}

\* the remotes of the tests: firmware_base_uri and uri are both optional
TestRemotes ==
    [base : {Absent, Some(Uri("https", "my.fancy.cdn", << >>, "")),
                     Some(Uri("https", "my.fancy.cdn", <<"fw">>, ""))},
     uri : {Absent,
            Some(Uri("https", "s3.amazonaws.com",
                     <<"lvfsbucket", "downloads", "firmware.xml.gz">>, "")),
            Some(Uri("http", "bbc.co.uk", <<"firmware.xml.gz">>, ""))}]

\* the directory of a path: the path without its last segment
Dir(p) == IF p = << >> THEN << >> ELSE SubSeq(p, 1, Len(p) - 1)

\* firmware_uri of a variant that keeps the scheme and host of the input
firmware_uri_keeps_host(remote, u) ==
    IF remote.base # Absent /\ ~IsAbsolute(u)
    THEN Uri(Get(remote.base).scheme, Get(remote.base).host,
             Get(remote.base).path \o u.path, u.query)
    ELSE IF remote.uri # Absent /\ ~IsAbsolute(u)
    THEN Uri(Get(remote.uri).scheme, Get(remote.uri).host,
             Dir(Get(remote.uri).path) \o u.path, u.query)
    ELSE u

\* firmware_uri of a variant that resolves against the remote's URI itself
firmware_uri_no_dirname(remote, u) ==
    IF remote.base # Absent
    THEN Uri(Get(remote.base).scheme, Get(remote.base).host,
             Get(remote.base).path \o u.path, u.query)
    ELSE IF remote.uri # Absent /\ ~IsAbsolute(u)
    THEN Uri(Get(remote.uri).scheme, Get(remote.uri).host,
             Get(remote.uri).path \o u.path, u.query)
    ELSE u

\* Remote::firmware_uri: with a base URI, the path and query of the input
\* appended to the base; without one, the input resolved against the
\* directory of the remote's own URI (an absolute input is kept as it is)
firmware_uri(remote, u) ==
    IF remote.base # Absent
    THEN Uri(Get(remote.base).scheme, Get(remote.base).host,
             Get(remote.base).path \o u.path, u.query)
    ELSE IF remote.uri # Absent /\ ~IsAbsolute(u)
    THEN Uri(Get(remote.uri).scheme, Get(remote.uri).host,
             Dir(Get(remote.uri).path) \o u.path, u.query)
    ELSE u

\* remote.firmware_uri(uri) is called
FirmwareUriCall ==
    /\ uriIn = Absent
    /\ \E r \in TestRemotes : uriRemote' = Some(r)
    /\ \E u \in InputUris : uriIn' = Some(u)
    /\ UNCHANGED <<uriOut, relRemote, remotes, found, updVars, sigVars, twin>>

\* it returns the URI to fetch
FirmwareUriReturn ==
    /\ uriIn # Absent
    /\ uriOut = Absent
    /\ uriOut' = Some(firmware_uri(Get(uriRemote), Get(uriIn)))
    /\ UNCHANGED <<uriRemote, uriIn, relRemote, remotes, found, updVars, sigVars, twin>>

\* the caller is done with the result
FirmwareUriDrop ==
    /\ uriOut # Absent
    /\ uriRemote' = Absent
    /\ uriIn' = Absent
    /\ uriOut' = Absent
    /\ UNCHANGED <<relRemote, remotes, found, updVars, sigVars, twin>>

NextUri ==
    \/ FirmwareUriCall
    \/ FirmwareUriReturn
    \/ FirmwareUriDrop

\* ------------------------------------------------------------------------
\* update_device_with_release called twice with the same client, device,
\* release and flags in the same environment, once with a callback and once
\* with None
\* ------------------------------------------------------------------------

\* what a finished run has met (kind, served, bodyLeft, the outcomes in steps)
\* and what it has done
Summary ==
    [kind |-> kind, served |-> served, bodyLeft |-> body, steps |-> steps,
     netRequests |-> netRequests, cacheOpens |-> cacheOpens, written |-> written,
     disk |-> disk, installArgs |-> installArgs, request |-> request,
     result |-> result, digestSeen |-> digestSeen, delivered |-> events # << >>]

\* the steps whose outcome is decided outside the program
EnvOps == {"remote", "filename", "open", "get", "copy", "seek", "read",
           "install_open", "install"}

\* the flags given to the calls of a pair: none, one, and two that include OFFLINE
TwinFlags == {0, ALLOW_REINSTALL, BitOr(FORCE, OFFLINE)}

\* the first call of a pair, with a callback; the flags given and the cache
\* file it finds are remembered
CallFirst ==
    /\ pc = "idle"
    /\ twin = Absent
    /\ pc' = "remote"
    /\ flags' \in TwinFlags
    /\ hasCallback' = TRUE
    /\ onlyOffline' \in BOOLEAN
    /\ checksum' \in {Absent} \cup {Some(d) : d \in Digests}
    /\ twin' = Some([flags0 |-> flags', disk0 |-> disk, first |-> Absent])
    /\ UNCHANGED <<kind, filename, handle, disk, body, served, copyErr, digestSeen,
                   events, netRequests, cacheOpens, written, installArgs, request,
                   result, steps, sigVars, relRemote, remotes, found, uriRemote,
                   uriIn, uriOut>>

\* the first call has returned; the second call is made with the same
\* arguments but None for the callback, on the cache file the first found
CallSecond ==
    /\ pc = "done"
    /\ twin # Absent
    /\ Get(twin).first = Absent
    /\ twin' = Some([Get(twin) EXCEPT !.first = Some(Summary)])
    /\ hasCallback' = ~hasCallback
    /\ flags' = Get(twin).flags0
    /\ disk' = Get(twin).disk0
    /\ pc' = "remote"
    /\ kind' = None
    /\ filename' = None
    /\ handle' = Absent
    /\ body' = <<>>
    /\ served' = Absent
    /\ copyErr' = FALSE
    /\ digestSeen' = Absent
    /\ events' = <<>>
    /\ netRequests' = 0
    /\ cacheOpens' = 0
    /\ written' = 0
    /\ installArgs' = Absent
    /\ request' = Absent
    /\ result' = None
    /\ steps' = <<>>
    /\ UNCHANGED <<onlyOffline, checksum, sigVars, relRemote, remotes, found,
                   uriRemote, uriIn, uriOut>>

\* the second call has returned; the pair is over
ReturnSecond ==
    /\ pc = "done"
    /\ twin # Absent
    /\ Get(twin).first # Absent
    /\ twin' = Absent
    /\ pc' = "idle"
    /\ flags' = 0
    /\ hasCallback' = FALSE
    /\ onlyOffline' = FALSE
    /\ checksum' = Absent
    /\ kind' = None
    /\ filename' = None
    /\ handle' = Absent
    /\ body' = <<>>
    /\ served' = Absent
    /\ copyErr' = FALSE
    /\ digestSeen' = Absent
    /\ events' = <<>>
    /\ netRequests' = 0
    /\ cacheOpens' = 0
    /\ written' = 0
    /\ installArgs' = Absent
    /\ request' = Absent
    /\ result' = None
    /\ steps' = <<>>
    /\ UNCHANGED <<disk, sigVars, relRemote, remotes, found, uriRemote, uriIn, uriOut>>

\* the environment of the second call behaves as it did for the first: the
\* same remote, the same response body, the same outcome of each step that
\* the environment decides, the body readable up to the same byte, the resolver
\* failing with the same error
SameEnvironment ==
    (twin # Absent /\ Get(twin).first # Absent) =>
        LET f == Get(Get(twin).first) IN
        /\ (kind' # None /\ f.kind # None) => kind' = f.kind
        /\ (served' # Absent /\ f.served # Absent) => served' = f.served
        /\ \A i \in 1..Len(steps') :
              (i <= Len(f.steps) /\ steps'[i].op \in EnvOps) =>
                  steps'[i].ok = f.steps[i].ok
        /\ (pc = "copy" /\ \E i \in 1..Len(f.steps) : f.steps[i].op = "copy") =>
              /\ Len(body') >= Len(f.bodyLeft)
              /\ pc' = "complete" => Len(body) = Len(f.bodyLeft)
        /\ (pc = "remote" /\ pc' = "done" /\ ~f.steps[1].ok) => result' = f.result

\* a step of either call of the pair
TwinStep ==
    /\ twin # Absent
    /\ \/ LookupRemote
       \/ ResolveFilename
       \/ LocalFlash
       \/ DownloadInitiate
       \/ OpenCache
       \/ HttpGet
       \/ CopyChunk
       \/ CopyEnd
       \/ DownloadComplete
       \/ SeekFirst
       \/ Verifying
       \/ Checksum
       \/ SeekSecond
       \/ ForceOffline
       \/ FlashInProgress
       \/ Install
    /\ SameEnvironment

NextTwin ==
    \/ CallFirst
    \/ CallSecond
    \/ ReturnSecond
    \/ TwinStep

InitSignals ==
    /\ cancellable = TRUE
    /\ lpc = "none"
    /\ twDone = FALSE
    /\ log = <<>>
    /\ yielded = <<>>
    /\ ret = "pending"
    /\ clearedAt = 0

InitAux ==
    /\ relRemote = None
    /\ remotes = Absent
    /\ found = Absent
    /\ uriRemote = Absent
    /\ uriIn = Absent
    /\ uriOut = Absent
    /\ twin = Absent

Init == InitUpdate /\ InitSignals /\ InitAux

Next == NextUpdate

Spec == Init /\ [][Next]_vars

\* the event stream alone
SpecSignals == Init /\ [][NextSignals]_vars

\* the event stream with a consumer thread that keeps running and a bus that
\* keeps delivering items (up to the bound)
SpecSignalsFair ==
    /\ SpecSignals
    /\ WF_vars(Pull)
    /\ WF_vars(CheckFlag)
    /\ WF_vars(FilterSignal)
    /\ WF_vars(Decode)

\* pairs of update runs that differ in the callback option only
SpecTwin == Init /\ [][NextTwin]_vars

\* the remote-resolution step alone
SpecRemote == Init /\ [][NextRemote]_vars

\* Remote::firmware_uri alone
SpecUri == Init /\ [][NextUri]_vars

\* ------------------------------------------------------------------------
\* Properties of update_device_with_release and install
\* ------------------------------------------------------------------------

\* the place of a FlashEvent kind in the order of the FlashEvent enum
Rank(k) ==
    CASE k = "DownloadInitiate" -> 1
      [] k = "DownloadUpdate" -> 2
      [] k = "DownloadComplete" -> 3
      [] k = "VerifyingChecksum" -> 4
      [] k = "FlashInProgress" -> 5

\* how many events of kind k the callback has received in this run
CountKind(k) == Cardinality({i \in 1..Len(events) : events[i].kind = k})

\* the run resolved a remote that is neither Local nor Directory
Fetching == kind \in RemoteKinds \ {"Local", "Directory"}

\* how many entries of the option list are named name
CountOption(opts, name) == Cardinality({i \in 1..Len(opts) : opts[i][1] = name})

\* the option list has an entry name = TRUE
HasOption(opts, name) ==
    \E i \in 1..Len(opts) : opts[i][1] = name /\ opts[i][2] = TRUE

FlagNames == {<<OFFLINE, "offline">>, <<ALLOW_REINSTALL, "allow-reinstall">>,
              <<ALLOW_OLDER, "allow-older">>, <<FORCE, "force">>,
              <<NO_HISTORY, "no-history">>}

\* C1: at every point of every run the events delivered so far are in the
\* order DownloadInitiate, DownloadUpdate*, DownloadComplete,
\* VerifyingChecksum, FlashInProgress: no event follows one of a later kind,
\* and only DownloadUpdate occurs more than once.
C1_EventOrder ==
    \A i, j \in 1..Len(events) :
        i < j =>
            /\ Rank(events[i].kind) <= Rank(events[j].kind)
            /\ (events[i].kind = events[j].kind => events[i].kind = "DownloadUpdate")

\* a successful download that delivered all five kinds, with two progress events
C1_Witness ==
    /\ pc = "done"
    /\ result = "Ok"
    /\ CountKind("DownloadUpdate") >= 2
    /\ \A k \in {"DownloadInitiate", "DownloadComplete", "VerifyingChecksum",
                 "FlashInProgress"} : CountKind(k) = 1

\* C2: an Install request sent for a device whose only_offline() is true
\* carries the option offline = true, whatever the flags and the remote kind.
C2_OfflineForced ==
    (request # Absent /\ onlyOffline) => HasOption(Get(request).options, "offline")

\* C3 as stated: a finished run on the download path with a callback has
\* delivered exactly one DownloadInitiate and exactly one DownloadComplete,
\* however the fetch ended.
C3_OneInitiateOneComplete ==
    (pc = "done" /\ hasCallback /\ Fetching) =>
        /\ CountKind("DownloadInitiate") = 1
        /\ CountKind("DownloadComplete") = 1

\* C3 amended: a finished run on the download path with a callback has
\* delivered exactly one DownloadInitiate; it has delivered exactly one
\* DownloadComplete if the cache file was opened and the HTTP response
\* obtained (whatever the number of chunks, and also when the copy failed),
\* and none if the run ended before the response (FirmwareCreate, FirmwareGet).
C3_OneCompletePerResponse ==
    (pc = "done" /\ hasCallback /\ Fetching) =>
        /\ CountKind("DownloadInitiate") = 1
        /\ CountKind("DownloadComplete") = (IF served # Absent THEN 1 ELSE 0)

\* a fetch with a callback whose copy failed after a chunk was written
C3_Witness ==
    /\ pc = "done"
    /\ hasCallback
    /\ Fetching
    /\ result = "FirmwareCopy"
    /\ written >= 1
    /\ CountKind("DownloadUpdate") >= 1

\* C4: when the digest recomputed over the cache file differs from the
\* release's selected checksum, the run has ended with
\* FirmwareChecksumMismatch, install was not called and no request was sent,
\* FlashInProgress was not delivered, and the cache file is on disk.
C4_MismatchAborts ==
    (digestSeen # Absent /\ digestSeen # checksum) =>
        /\ pc = "done"
        /\ result = "FirmwareChecksumMismatch"
        /\ installArgs = Absent
        /\ request = Absent
        /\ CountKind("FlashInProgress") = 0
        /\ disk # Absent

\* a run with a callback that downloaded a non-empty body and found a mismatch
C4_Witness ==
    /\ pc = "done"
    /\ hasCallback
    /\ digestSeen # Absent
    /\ digestSeen # checksum
    /\ written >= 1
    /\ result = "FirmwareChecksumMismatch"

\* C5: in a run whose remote is Local or Directory no HTTP request is sent
\* and the cache file is neither opened (created) nor written; the callback
\* receives nothing but one FlashInProgress, delivered before install is
\* called with the resolved local path and no handle; and a run that
\* returns has called install.
C5_LocalNoFetch ==
    kind \in {"Local", "Directory"} =>
        /\ netRequests = 0
        /\ cacheOpens = 0
        /\ written = 0
        /\ handle = Absent
        /\ events \in {<< >>, <<Ev("FlashInProgress", 0)>>}
        /\ installArgs # Absent =>
              /\ Get(installArgs).filename
                    = (IF kind = "Local" THEN "filename_cache.parent/release.uri"
                                         ELSE "release.uri[7..]")
              /\ Get(installArgs).handle = Absent
              /\ hasCallback => events = <<Ev("FlashInProgress", 0)>>
        /\ (pc = "done" /\ result # "panic") => installArgs # Absent

\* a Directory release installed with a callback
C5_Witness ==
    /\ kind = "Directory"
    /\ pc = "done"
    /\ result = "Ok"
    /\ hasCallback
    /\ request # Absent
    /\ events = <<Ev("FlashInProgress", 0)>>

\* C6: a fetch whose served bytes match the release's checksum does not end
\* in FirmwareChecksumMismatch, whatever the cache file held before.
C6_MatchingFetchVerifies ==
    (pc = "done" /\ served # Absent /\ checksum = Some(Digest(Get(served)))) =>
        result # "FirmwareChecksumMismatch"

\* C10: the option list install sends has, for each of the five flags, exactly
\* one entry of its name when the flag is set and none when it is not, every
\* such entry with the value true; beside them only reason and filename.
C10_FlagOptions ==
    (request # Absent /\ installArgs # Absent) =>
        LET opts == Get(request).options
            fl == Get(installArgs).flags
        IN /\ \A fn \in FlagNames :
                 /\ CountOption(opts, fn[2]) = (IF Contains(fl, fn[1]) THEN 1 ELSE 0)
                 /\ Contains(fl, fn[1]) => HasOption(opts, fn[2])
           /\ \A i \in 1..Len(opts) :
                 \/ i <= 2
                 \/ opts[i][2] = TRUE /\ \E fn \in FlagNames : fn[2] = opts[i][1]

\* install sent a request for OFFLINE | ALLOW_OLDER | NO_HISTORY
C10_Witness ==
    /\ request # Absent
    /\ installArgs # Absent
    /\ Get(installArgs).flags = 21
    /\ Len(Get(request).options) = 5

\* the DownloadUpdate events delivered in this run, in order
IsUpdate(e) == e.kind = "DownloadUpdate"
Updates == SelectSeq(events, IsUpdate)

\* the sum of the byte counts of a sequence of DownloadUpdate events
RECURSIVE SumCounts(_)
SumCounts(u) == IF u = <<>> THEN 0 ELSE u[1].n + SumCounts(Tail(u))

Pipelines ==
    {<<"remote", "filename", "install_open", "install">>,
     <<"remote", "filename", "open", "get", "copy", "seek", "read", "compare",
       "seek", "install">>,
     <<"remote", "filename", "open", "get", "copy", "seek", "seek", "install">>}

\* the errors with which a fallible step fails
ErrorsOf(op) ==
    CASE op = "remote" -> {"RemoteNotFound", "Call", "ArgumentMismatch"}
      [] op = "filename" -> {"panic"}
      [] op = "open" -> {"FirmwareCreate"}
      [] op = "get" -> {"FirmwareGet"}
      [] op = "copy" -> {"FirmwareCopy"}
      [] op = "seek" -> {"FirmwareSeek"}
      [] op = "read" -> {"FirmwareRead"}
      [] op = "compare" -> {"FirmwareChecksumMismatch"}
      [] op = "install_open" -> {"FirmwareOpen"}
      [] op = "install" -> {"Call"}

IsPrefix(a, b) == Len(a) <= Len(b) /\ \A i \in 1..Len(a) : a[i] = b[i]

\* C15: the fallible steps of a run are executed in the order of the code,
\* none twice; a failed step is the last step of the run, which returns that
\* step's error (after a failed copy only the DownloadComplete callback runs
\* before the return); a run whose steps all succeeded returns Ok; the
\* Install call is issued only as the last step, after every earlier step
\* succeeded.
C15_StopAtFirstFailure ==
    /\ \E p \in Pipelines : IsPrefix([i \in 1..Len(steps) |-> steps[i].op], p)
    /\ \A i \in 1..Len(steps) :
          ~steps[i].ok =>
              /\ i = Len(steps)
              /\ pc = "done" \/ (pc = "complete" /\ steps[i].op = "copy")
              /\ pc = "done" => result \in ErrorsOf(steps[i].op)
    /\ pc = "done" =>
          /\ steps # << >>
          /\ (\A i \in 1..Len(steps) : steps[i].ok) =>
                (result = "Ok" /\ steps[Len(steps)].op = "install")
    /\ request # Absent =>
          /\ steps[Len(steps)].op = "install"
          /\ \A i \in 1..(Len(steps) - 1) : steps[i].ok

\* the second seek failed after a successful verification and the run stopped
C15_Witness ==
    /\ pc = "done"
    /\ result = "FirmwareSeek"
    /\ Len(steps) = 9
    /\ ~steps[9].ok
    /\ request = Absent
    /\ installArgs = Absent

\* C16: install receives the downloaded cache file with its cursor at offset
\* 0, the checksum was computed over the file from offset 0, and the run
\* made one successful seek before the verification and one before install.
C16_RewoundForInstall ==
    /\ (installArgs # Absent /\ Get(installArgs).handle # Absent) =>
          /\ Get(Get(installArgs).handle).pos = 0
          /\ Cardinality({i \in 1..Len(steps) :
                             steps[i].op = "seek" /\ steps[i].ok}) = 2
          /\ steps[Len(steps) - 1] = [op |-> "seek", ok |-> TRUE]
    /\ (request # Absent /\ Fetching) => Get(request).fd.pos = 0
    /\ digestSeen # Absent =>
          /\ digestSeen = Some(Digest(Get(disk)))
          /\ \E i \in 1..(Len(steps) - 1) :
                /\ steps[i] = [op |-> "seek", ok |-> TRUE]
                /\ steps[i + 1].op = "read"

\* a verified two-byte download handed to install
C16_Witness ==
    /\ request # Absent
    /\ Fetching
    /\ written = 2
    /\ digestSeen # Absent
    /\ Get(request).fd.pos = 0

\* C21: a DownloadComplete event is delivered only when the copy has
\* succeeded with the whole response body in the cache file, and a run that
\* returns FirmwareCopy has delivered no DownloadComplete.
C21_CompleteOnlyAfterCopy ==
    /\ CountKind("DownloadComplete") > 0 =>
          /\ ~copyErr
          /\ body = << >>
          /\ written = Len(Get(served))
    /\ result = "FirmwareCopy" => CountKind("DownloadComplete") = 0

\* the second call of a pair is running or has returned
SecondRun == twin # Absent /\ Get(twin).first # Absent

\* C22: a call with a callback and a call with None, with the same arguments
\* in the same environment, execute the same steps with the same outcomes,
\* send the same number of requests, open the cache file as often and write
\* as many bytes; when the second has returned, both have left the same
\* cache file, called install with the same file, handle and flags, sent the
\* same Install request, verified the same digest and returned the same result.
C22_CallbackBlind ==
    SecondRun =>
        LET f == Get(Get(twin).first) IN
        /\ IsPrefix(steps, f.steps)
        /\ netRequests <= f.netRequests
        /\ cacheOpens <= f.cacheOpens
        /\ written <= f.written
        /\ pc = "done" =>
              /\ steps = f.steps
              /\ netRequests = f.netRequests
              /\ cacheOpens = f.cacheOpens
              /\ written = f.written
              /\ disk = f.disk
              /\ installArgs = f.installArgs
              /\ request = f.request
              /\ digestSeen = f.digestSeen
              /\ result = f.result

\* a verified two-byte download installed by a call with a callback, which
\* received events, and then by a call without one
C22_Witness ==
    /\ SecondRun
    /\ pc = "done"
    /\ ~hasCallback
    /\ Get(Get(twin).first).delivered
    /\ events = << >>
    /\ written = 2
    /\ digestSeen # Absent
    /\ request # Absent
    /\ result = "Ok"

\* ------------------------------------------------------------------------
\* Properties of listen_signals
\* ------------------------------------------------------------------------

\* the items for which the flag was observed false
Cancelled == {i \in 1..Len(log) : log[i].flag = "false"}

\* the items that are fully processed
Processed ==
    {i \in 1..Len(log) :
        /\ log[i].flag # "unchecked"
        /\ (i = Len(log) => lpc \notin {"filter", "decode"})}

\* the item decodes to a Signal: a recognized signal with a well-formed payload
WellFormed(ci) ==
    /\ ci.class = "Signal"
    /\ ci.member \in Recognized
    /\ (ci.ok \/ ci.member = "Changed")

\* the item is a recognized signal whose payload fails to decode
Malformed(ci) ==
    /\ ci.class = "Signal"
    /\ ci.member \in Recognized \ {"Changed"}
    /\ ~ci.ok

YieldedFrom(i) == \E k \in 1..Len(yielded) : yielded[k].src = i

\* C7: once the flag has been observed false for a message, the sequence
\* yields nothing for that message nor for any later one: every Signal it
\* has yielded comes from an earlier message.
C7_EndedAfterCancel ==
    \A i \in Cancelled : \A k \in 1..Len(yielded) : yielded[k].src < i

\* the flag was observed false after a Signal was yielded, has been set back,
\* and the consumer is calling next() again
C7_Witness ==
    /\ Cancelled # {}
    /\ Len(yielded) >= 1
    /\ cancellable
    /\ lpc = "pull"
    /\ twDone

\* C8: every yielded element comes from a signal-class item whose member is
\* one of the five recognized names and has that variant; other items yield
\* nothing, and the sequence ends only by observing the flag false.
C8_OnlyRecognizedSignals ==
    /\ \A k \in 1..Len(yielded) :
          LET ci == log[yielded[k].src].item
          IN /\ ci.class = "Signal"
             /\ ci.member \in Recognized
             /\ yielded[k].variant = ci.member
    /\ \A i \in Processed :
          (log[i].item.class # "Signal" \/ log[i].item.member \notin Recognized)
              => ~YieldedFrom(i)
    /\ (twDone \/ ret = "None") => Cancelled # {}

\* a method return and an unknown signal were dropped and a later signal yielded
C8_Witness ==
    /\ Len(log) = 3
    /\ log[1].item.class = "MethodReturn"
    /\ log[2].item.member = "JobStarted"
    /\ YieldedFrom(3)
    /\ yielded[1].variant = "DeviceAdded"

\* C9: a recognized signal whose payload fails to decode yields nothing and
\* does not end the sequence (which ends only by observing the flag false),
\* and every well-formed recognized signal for which the flag was observed
\* true is yielded.
C9_DecodeFailureSkipped ==
    /\ \A i \in Processed :
          /\ Malformed(log[i].item) => ~YieldedFrom(i)
          /\ (WellFormed(log[i].item) /\ log[i].flag = "true") => YieldedFrom(i)
    /\ (twDone \/ ret = "None") => Cancelled # {}

\* a malformed DeviceChanged was skipped and a later well-formed signal yielded
C9_Witness ==
    \E i, j \in 1..Len(log) :
        /\ i < j
        /\ Malformed(log[i].item)
        /\ log[i].flag = "true"
        /\ WellFormed(log[j].item)
        /\ YieldedFrom(j)

\* C17: while the flag is cleared, at most one Signal has been yielded since
\* it was cleared; the flag is loaded exactly once for every received item,
\* and an item is filtered or decoded only after its load (which saw true).
C17_OneMoreAfterClear ==
    /\ ~cancellable => Len(yielded) <= clearedAt + 1
    /\ \A i \in 1..Len(log) :
          /\ log[i].loads = (IF log[i].flag = "unchecked" THEN 0 ELSE 1)
          /\ i < Len(log) => log[i].loads = 1
    /\ lpc \in {"filter", "decode"} =>
          /\ log[Len(log)].loads = 1
          /\ log[Len(log)].flag = "true"

\* the flag was cleared after a Signal, one more Signal was yielded (its
\* check came before the clearing), and the next item ended the sequence
C17_Witness ==
    /\ ~cancellable
    /\ clearedAt >= 1
    /\ Len(yielded) = clearedAt + 1
    /\ twDone

\* C18: once a sequence has ended by observing the flag false, it receives
\* and yields nothing more, whatever the flag becomes; only a fresh
\* listen_signals call starts a sequence that yields again.
C18_NotRestartable ==
    [][twDone =>
          \/ ListenSignals
          \/ /\ twDone'
             /\ yielded' = yielded
             /\ log' = log
             /\ ret' # "Some"]_vars

\* an ended sequence, the flag set back to true, the consumer calling next()
\* again while the bus could deliver more items
C18_Witness ==
    /\ twDone
    /\ cancellable
    /\ lpc = "pull"
    /\ yielded = << >>
    /\ Len(log) < MaxItems

\* C19: a consumer blocked in next() with the flag cleared ends the sequence
\* once a further bus item arrives (unless the flag is set again); it leaves
\* the blocked state only by receiving an item; and the item whose check saw
\* the flag false is dropped without being yielded.
C19_EndsOnNextItem ==
    /\ (lpc = "pull" /\ ~twDone /\ ~cancellable /\ Len(log) < MaxItems)
          ~> (twDone \/ cancellable)
    /\ [][/\ (lpc = "pull" /\ ~twDone /\ lpc' # "pull") =>
                (Len(log') = Len(log) + 1 /\ lpc' = "check")
          /\ (lpc = "check" /\ lpc' = "idle") =>
                /\ ~cancellable
                /\ twDone'
                /\ ret' = "None"
                /\ yielded' = yielded]_vars

\* a well-formed recognized signal arrived with the flag cleared and was
\* dropped, ending the sequence
C19_Witness ==
    /\ twDone
    /\ ~cancellable
    /\ lpc = "idle"
    /\ ret = "None"
    /\ WellFormed(log[Len(log)].item)
    /\ log[Len(log)].flag = "false"
    /\ ~YieldedFrom(Len(log))

\* C20: the yielded Signals are a subsequence of the received items: each
\* comes from a received item and has the variant its member names, and
\* their source items are strictly increasing (at most one Signal per item,
\* in the order of receipt).
C20_OrderedSubsequence ==
    /\ \A k \in 1..Len(yielded) :
          /\ yielded[k].src \in 1..Len(log)
          /\ yielded[k].variant = log[yielded[k].src].item.member
    /\ \A k, l \in 1..Len(yielded) :
          k < l => yielded[k].src < yielded[l].src

\* two Signals yielded in order with a dropped item between them
C20_Witness ==
    /\ Len(yielded) = 2
    /\ yielded[1].src = 1
    /\ yielded[2].src = 3
    /\ yielded[1].variant # yielded[2].variant

\* ------------------------------------------------------------------------
\* Properties of the remote-resolution step
\* ------------------------------------------------------------------------

\* the reply of GetRemotes has a remote with the release's remote id
Known == \E i \in 1..Len(Get(remotes)) : Get(remotes)[i].id = relRemote

EndsWith(p, q) ==
    /\ Len(q) <= Len(p)
    /\ SubSeq(p, Len(p) - Len(q) + 1, Len(p)) = q

\* C13: for a remote with a firmware base URI the result has the scheme and
\* the host of the base, and keeps the path (after the base's own path) and
\* the query of the input.
C13_BaseUriRewrite ==
    (uriOut # Absent /\ Get(uriRemote).base # Absent) =>
        LET base == Get(Get(uriRemote).base)
            out == Get(uriOut)
        IN /\ out.scheme = base.scheme
           /\ out.host = base.host
           /\ EndsWith(out.path, Get(uriIn).path)
           /\ Len(out.path) = Len(base.path) + Len(Get(uriIn).path)
           /\ out.query = Get(uriIn).query

\* base https://my.fancy.cdn/ and input http://bbc.co.uk/firmware.cab give
\* https://my.fancy.cdn/firmware.cab
C13_Witness ==
    /\ uriOut # Absent
    /\ Get(uriRemote).base = Some(Uri("https", "my.fancy.cdn", << >>, ""))
    /\ Get(uriIn) = Uri("http", "bbc.co.uk", <<"firmware.cab">>, "")
    /\ Get(uriOut) = Uri("https", "my.fancy.cdn", <<"firmware.cab">>, "")

\* C14: for a remote with no firmware base URI, a relative input comes back
\* under the scheme, host and directory of the remote's own URI, with its own
\* path and query.
C14_ResolvedAgainstRemoteDir ==
    (/\ uriOut # Absent
     /\ Get(uriRemote).base = Absent
     /\ Get(uriRemote).uri # Absent
     /\ ~IsAbsolute(Get(uriIn))) =>
        LET src == Get(Get(uriRemote).uri)
            out == Get(uriOut)
        IN /\ out.scheme = src.scheme
           /\ out.host = src.host
           /\ Len(out.path) = Len(src.path) - 1 + Len(Get(uriIn).path)
           /\ \A i \in 1..(Len(src.path) - 1) : out.path[i] = src.path[i]
           /\ EndsWith(out.path, Get(uriIn).path)
           /\ out.query = Get(uriIn).query

\* remote https://s3.amazonaws.com/lvfsbucket/downloads/firmware.xml.gz and
\* input firmware.cab give https://s3.amazonaws.com/lvfsbucket/downloads/firmware.cab
C14_Witness ==
    /\ uriOut # Absent
    /\ Get(uriRemote).base = Absent
    /\ Get(uriIn) = Uri("", "", <<"firmware.cab">>, "")
    /\ Get(uriOut) = Uri("https", "s3.amazonaws.com",
                         <<"lvfsbucket", "downloads", "firmware.cab">>, "")

====
